---- MODULE Spec2Model ----
(***************************************************************************)
(* Model of the NL-to-SQL guardrail pipeline of src/Nl2sql/Generate_sql.py *)
(* (sanitize_sql, add_default_limit, execute_sql, nl2sql_run).             *)
(*                                                                         *)
(* SQL text is a TLA+ string; the regular expressions of the source are    *)
(* operators that scan the text character by character, so acceptance,     *)
(* rejection and rewriting are computed the way the code computes them.    *)
(***************************************************************************)
EXTENDS Integers, Sequences, FiniteSets, TLC

(***************************************************************************)
(* Program constants.                                                      *)
(***************************************************************************)
ALLOWED_TABLE == "transactions"

ALLOWED_COLUMNS == {"id", "ts", "amount", "ccy", "counterparty", "book"}

DDL_DML_KEYWORDS ==
    {"DROP", "DELETE", "UPDATE", "INSERT", "ALTER", "CREATE", "TRUNCATE",
     "ATTACH", "PRAGMA", "VACUUM"}

AGG_FUNCS == {"COUNT", "SUM", "AVG", "MIN", "MAX"}

\* add_default_limit(sql, default_limit = 100)
DEFAULT_LIMIT == 100

\* execute_sql(db_path, sql, limit_rows = 100)
LIMIT_ROWS == 100

\* The reasons sanitize_sql returns with ok = False.
MSG_NOT_SELECT == "Only SELECT queries are allowed."

MSG_UNSAFE == "Destructive or unsafe SQL detected (DDL/DML not allowed)."

MSG_TABLE == "Query references unknown or disallowed tables."

MSG_COLUMN == "Query references unknown columns via dot notation."

(***************************************************************************)
(* Characters and the string methods of Python the code uses.              *)
(***************************************************************************)
LowerAlpha == "abcdefghijklmnopqrstuvwxyz"

UpperAlpha == "ABCDEFGHIJKLMNOPQRSTUVWXYZ"

DigitChars == {"0", "1", "2", "3", "4", "5", "6", "7", "8", "9"}

Char(s, i) == SubSeq(s, i, i)

LowerChars == {Char(LowerAlpha, i) : i \in 1..26}

UpperChars == {Char(UpperAlpha, i) : i \in 1..26}

\* [A-Za-z_] : the first character of an identifier
IdentStartChars == LowerChars \cup UpperChars \cup {"_"}

\* \w and [A-Za-z0-9_] (ASCII text)
WordChars == IdentStartChars \cup DigitChars

\* \s
WhiteSpace == {" ", "\t", "\n"}

UpperMap ==
    [c \in LowerChars |->
        Char(UpperAlpha, CHOOSE i \in 1..26 : Char(LowerAlpha, i) = c)]

LowerMap ==
    [c \in UpperChars |->
        Char(LowerAlpha, CHOOSE i \in 1..26 : Char(UpperAlpha, i) = c)]

RECURSIVE upper(_)
\* str.upper()
upper(s) ==
    IF s = "" THEN ""
    ELSE LET c == Char(s, 1)
         IN  (IF c \in LowerChars THEN UpperMap[c] ELSE c)
                 \o upper(SubSeq(s, 2, Len(s)))

RECURSIVE lower(_)
\* str.lower()
lower(s) ==
    IF s = "" THEN ""
    ELSE LET c == Char(s, 1)
         IN  (IF c \in UpperChars THEN LowerMap[c] ELSE c)
                 \o lower(SubSeq(s, 2, Len(s)))

RECURSIVE lstrip_ws(_)
lstrip_ws(s) ==
    IF s # "" /\ Char(s, 1) \in WhiteSpace
    THEN lstrip_ws(SubSeq(s, 2, Len(s)))
    ELSE s

RECURSIVE rstrip_ws(_)
rstrip_ws(s) ==
    IF s # "" /\ Char(s, Len(s)) \in WhiteSpace
    THEN rstrip_ws(SubSeq(s, 1, Len(s) - 1))
    ELSE s

\* str.strip()
strip(s) == rstrip_ws(lstrip_ws(s))

RECURSIVE rstrip_semi(_)
\* str.rstrip(";")
rstrip_semi(s) ==
    IF s # "" /\ Char(s, Len(s)) = ";"
    THEN rstrip_semi(SubSeq(s, 1, Len(s) - 1))
    ELSE s

\* the `in` operator on strings: sub occurs somewhere in s
Contains(s, sub) ==
    \E i \in 1..(Len(s) - Len(sub) + 1) : SubSeq(s, i, i + Len(sub) - 1) = sub

(***************************************************************************)
(* Pieces of the regular expressions.  Positions are 1-based; a regular    *)
(* expression position "before character i" is the index i.                *)
(***************************************************************************)
IsWordAt(s, i) == i >= 1 /\ i <= Len(s) /\ Char(s, i) \in WordChars

\* \b before character i (i = Len(s) + 1 is the end of the text)
WordBoundary(s, i) == IsWordAt(s, i - 1) # IsWordAt(s, i)

\* the literal kw (upper case) at i, under re.IGNORECASE
LiteralAt(s, i, kw) ==
    /\ i >= 1
    /\ i + Len(kw) - 1 <= Len(s)
    /\ upper(SubSeq(s, i, i + Len(kw) - 1)) = kw

RECURSIVE SkipWhile(_, _, _)
\* the first index >= i whose character is not in chars (greedy  x* )
SkipWhile(s, i, chars) ==
    IF i <= Len(s) /\ Char(s, i) \in chars
    THEN SkipWhile(s, i + 1, chars)
    ELSE i

\* [A-Za-z_][A-Za-z0-9_]* at i: the index after the identifier, 0 if none
IdentEnd(s, i) ==
    IF i <= Len(s) /\ Char(s, i) \in IdentStartChars
    THEN SkipWhile(s, i + 1, WordChars)
    ELSE 0

(***************************************************************************)
(* Guardrails.                                                             *)
(***************************************************************************)
\* Variant of is_select: the pattern without its closing \b.
is_select_prefix(sql) ==
    LET i == SkipWhile(sql, 1, WhiteSpace)
    IN  LiteralAt(sql, i, "SELECT")

\* re.match(r"^\s*SELECT\b", sql, flags=re.IGNORECASE)
is_select(sql) ==
    LET i == SkipWhile(sql, 1, WhiteSpace)
    IN  LiteralAt(sql, i, "SELECT") /\ WordBoundary(sql, i + 6)

\* Variant of DDL_DML_search: the pattern compiled without re.IGNORECASE.
DDL_DML_search_cased(sql) ==
    \E i \in 1..Len(sql) :
        /\ WordBoundary(sql, i)
        /\ \E kw \in DDL_DML_KEYWORDS :
              /\ i + Len(kw) - 1 <= Len(sql)
              /\ SubSeq(sql, i, i + Len(kw) - 1) = kw
              /\ WordBoundary(sql, i + Len(kw))

\* DDL_DML_PATTERN.search(sql): \b(DROP|DELETE|...|VACUUM)\b, re.IGNORECASE
DDL_DML_search(sql) ==
    \E i \in 1..Len(sql) :
        /\ WordBoundary(sql, i)
        /\ \E kw \in DDL_DML_KEYWORDS :
              LiteralAt(sql, i, kw) /\ WordBoundary(sql, i + Len(kw))

\* One match of  \bKW\s+([A-Za-z_][A-Za-z0-9_]*)  starting at i:
\* <<start of group 1, index after the match>>, or <<0, 0>> when none.
KeywordTableAt(sql, kw, i) ==
    IF WordBoundary(sql, i) /\ LiteralAt(sql, i, kw)
    THEN LET j == SkipWhile(sql, i + Len(kw), WhiteSpace)
             e == IdentEnd(sql, j)
         IN  IF j > i + Len(kw) /\ e > 0 THEN <<j, e>> ELSE <<0, 0>>
    ELSE <<0, 0>>

RECURSIVE KeywordTables(_, _, _)
\* pattern.finditer(sql) from index i on: group(1) of each match, in order,
\* matches not overlapping (the scan resumes where the last match ended)
KeywordTables(sql, kw, i) ==
    IF i > Len(sql) THEN <<>>
    ELSE LET m == KeywordTableAt(sql, kw, i)
         IN  IF m[1] > 0
             THEN <<SubSeq(sql, m[1], m[2] - 1)>> \o KeywordTables(sql, kw, m[2])
             ELSE KeywordTables(sql, kw, i + 1)

\* TABLE_FROM_PATTERN.finditer(sql)
TABLE_FROM_matches(sql) == KeywordTables(sql, "FROM", 1)

\* TABLE_JOIN_PATTERN.finditer(sql)
TABLE_JOIN_matches(sql) == KeywordTables(sql, "JOIN", 1)

TABLE_NAME == lower(ALLOWED_TABLE)

ALLOWED_COLS_LC == {lower(c) : c \in ALLOWED_COLUMNS}

only_allowed_tables(sql) ==
    LET froms == TABLE_FROM_matches(sql)
        joins == TABLE_JOIN_matches(sql)
    IN  /\ \A k \in 1..Len(froms) : lower(froms[k]) = TABLE_NAME
        /\ \A k \in 1..Len(joins) : lower(joins[k]) = TABLE_NAME
        /\ Len(froms) > 0

\* One match of  \b([A-Za-z_][A-Za-z0-9_]*)\.([A-Za-z_][A-Za-z0-9_]*)  at i:
\* <<index of the dot, index after the match>>, or <<0, 0>> when none.
DotColAt(sql, i) ==
    IF WordBoundary(sql, i) /\ IdentEnd(sql, i) > 0
    THEN LET d == IdentEnd(sql, i)
             e == IdentEnd(sql, d + 1)
         IN  IF d <= Len(sql) /\ Char(sql, d) = "." /\ e > 0
             THEN <<d, e>> ELSE <<0, 0>>
    ELSE <<0, 0>>

RECURSIVE DOT_COL_matches(_, _)
\* DOT_COL_PATTERN.finditer(sql) from index i on: <<group(1), group(2)>>
DOT_COL_matches(sql, i) ==
    IF i > Len(sql) THEN <<>>
    ELSE LET m == DotColAt(sql, i)
         IN  IF m[1] > 0
             THEN <<<<SubSeq(sql, i, m[1] - 1), SubSeq(sql, m[1] + 1, m[2] - 1)>>>>
                      \o DOT_COL_matches(sql, m[2])
             ELSE DOT_COL_matches(sql, i + 1)

dot_columns_are_allowed(sql) ==
    LET ms == DOT_COL_matches(sql, 1)
    IN  \A k \in 1..Len(ms) :
            /\ lower(ms[k][1]) = TABLE_NAME
            /\ lower(ms[k][2]) \in ALLOWED_COLS_LC

\* re.search(r"\bLIMIT\s+\d+\b", sql, flags=re.IGNORECASE)
has_limit(sql) ==
    \E i \in 1..Len(sql) :
        /\ WordBoundary(sql, i)
        /\ LiteralAt(sql, i, "LIMIT")
        /\ LET j == SkipWhile(sql, i + 5, WhiteSpace)
               k == SkipWhile(sql, j, DigitChars)
           IN  j > i + 5 /\ k > j /\ WordBoundary(sql, k)

\* any(func in sql.upper() for func in AGG_FUNCS)
is_aggregate(sql) == \E func \in AGG_FUNCS : Contains(upper(sql), func)

RECURSIVE IntToStr(_)
\* f"{default_limit}" for a natural number
IntToStr(n) ==
    IF n < 10 THEN Char("0123456789", n + 1)
    ELSE IntToStr(n \div 10) \o Char("0123456789", (n % 10) + 1)

\* Variant of add_default_limit: the LIMIT appended without asking has_limit.
add_default_limit_unasked(sql, default_limit) ==
    IF ~is_aggregate(sql)
    THEN rstrip_semi(sql) \o " LIMIT " \o IntToStr(default_limit) \o ";"
    ELSE sql

add_default_limit(sql, default_limit) ==
    IF ~has_limit(sql) /\ ~is_aggregate(sql)
    THEN rstrip_semi(sql) \o " LIMIT " \o IntToStr(default_limit) \o ";"
    ELSE sql

\* sql.strip().rstrip(";") + ";"
sql_clean(sql) == rstrip_semi(strip(sql)) \o ";"

\* Returns <<ok, sql_final>> or <<FALSE, reason>>.
sanitize_sql(sql) ==
    LET clean == sql_clean(sql)
    IN  IF ~is_select(clean) THEN <<FALSE, MSG_NOT_SELECT>>
        ELSE IF DDL_DML_search(clean) THEN <<FALSE, MSG_UNSAFE>>
        ELSE IF ~only_allowed_tables(clean) THEN <<FALSE, MSG_TABLE>>
        ELSE IF ~dot_columns_are_allowed(clean) THEN <<FALSE, MSG_COLUMN>>
        ELSE <<TRUE, add_default_limit(clean, DEFAULT_LIMIT)>>

(***************************************************************************)
(* Bounds of the model.                                                    *)
(***************************************************************************)
\* calls of nl2sql_run started, over all sessions
MaxCalls == 3

\* the most rows the engine hands back for one query
MaxEngineRows == 500

\* trailing ";" a generated candidate may carry
MaxSemis == 2

(***************************************************************************)
(* The pipeline: nl2sql_run called from concurrent sessions.               *)
(***************************************************************************)
\* The interactive sessions (threads) from which nl2sql_run is called.
Sessions == {"s1", "s2"}

\* Optional[T]: None is <<>>, a present value v is <<v>>.
None == <<>>

Some(v) == <<v>>

\* What llm_sql may hand back to nl2sql_run.
Candidates ==
    {"SELECT * FROM transactions",
     "SELECT * FROM transactions LIMIT 5;",
     "select count(*) from transactions;;",
     "SELECT counterparty FROM transactions",
     "DROP TABLE transactions",
     "SELECT * FROM transactions; DROP TABLE transactions;",
     "SELECT t.id FROM other_table t",
     "SELECT transactions.secret FROM transactions"}

\* Row counts the engine may return for a query.
EngineRowCounts == {0, LIMIT_ROWS, LIMIT_ROWS + 1, MaxEngineRows}

VARIABLES
    pc,        \* per session: where its call of nl2sql_run stands
    raw_sql,   \* per session: the local raw_sql of nl2sql_run
    verdict,   \* per session: the locals (ok, safe_or_msg) of nl2sql_run
    con,       \* per session: the local con of execute_sql (a connection id)
    pending,   \* per session: what execute_sql's try block left for finally
    outcome,   \* per session: the tuple nl2sql_run returned
    stages,    \* per session: the stages the current call has entered
    conns,     \* the connection objects that exist, by id
    nConns,    \* connections created so far (the next id is nConns + 1)
    nCalls,    \* calls of nl2sql_run started so far
    arg,       \* validator harness: the text handed to sanitize_sql
    ret,       \* validator harness: what sanitize_sql returned
    again,     \* validator harness: sanitize_sql of the accepted output
    rewrites   \* validator harness: successive results of add_default_limit

vars ==
    <<pc, raw_sql, verdict, con, pending, outcome, stages, conns, nConns,
      nCalls, arg, ret, again, rewrites>>

pipelineVars ==
    <<pc, raw_sql, verdict, con, pending, outcome, stages, conns, nConns,
      nCalls>>

harnessVars == <<arg, ret, again, rewrites>>

NoOutcome ==
    [generated_sql |-> None, dataframe |-> None, error_message |-> None]

\* return None, None, f"Database not found at {db_path}. ..."
DbMissingOutcome ==
    [generated_sql |-> None, dataframe |-> None,
     error_message |-> Some("Database not found")]

\* return None, None, f"LLM error: {e}"
LlmErrorOutcome ==
    [generated_sql |-> None, dataframe |-> None,
     error_message |-> Some("LLM error")]

\* Variant of BlockedOutcome: the normalised text surfaced instead of raw_sql.
BlockedOutcomeClean(raw, msg) ==
    [generated_sql |-> Some(sql_clean(raw)), dataframe |-> None,
     error_message |-> Some("Blocked query: " \o msg)]

\* return raw_sql, None, f"Blocked query: {safe_or_msg}"
BlockedOutcome(raw, msg) ==
    [generated_sql |-> Some(raw), dataframe |-> None,
     error_message |-> Some("Blocked query: " \o msg)]

\* return safe_or_msg, df, None
SuccessOutcome(safe, df) ==
    [generated_sql |-> Some(safe), dataframe |-> Some(df),
     error_message |-> None]

\* Variant of ExecErrorOutcome: an empty frame handed back with the message.
ExecErrorOutcomeWithFrame(safe) ==
    [generated_sql |-> Some(safe), dataframe |-> Some(0),
     error_message |-> Some("SQL execution error")]

\* return safe_or_msg, None, f"SQL execution error: {e}"
ExecErrorOutcome(safe) ==
    [generated_sql |-> Some(safe), dataframe |-> None,
     error_message |-> Some("SQL execution error")]

\* Variant of ExecuteArg: the unvalidated text handed to execute_sql.
ExecuteArgRaw(raw, safe) == raw

\* The statement nl2sql_run hands to execute_sql.
ExecuteArg(raw, safe) == safe

\* Variant of Truncate: the safety cap left out.
TruncateNever(n, limit_rows) == n

\* df.head(limit_rows) when len(df) > limit_rows, on a frame of n rows
Truncate(n, limit_rows) == IF n > limit_rows THEN limit_rows ELSE n

\* Variant of CloseOnExit: close only after the try block, not in a finally.
CloseOnSuccessOnly(cs, id, raised) ==
    IF raised THEN cs ELSE [cs EXCEPT ![id].open = FALSE]

\* finally: con.close()  -- runs whether or not the try block raised
CloseOnExit(cs, id, raised) == [cs EXCEPT ![id].open = FALSE]

\* Variant of GuardedCalls: execute_sql called outside any try block.
GuardedCallsLlmOnly == {"llm_sql"}

\* The calls nl2sql_run makes inside a try/except Exception block.
GuardedCalls == {"llm_sql", "execute_sql"}

\* Where nl2sql_run stands once the call at site has raised: it has returned
\* through the except branch, or the exception has left nl2sql_run.
AfterRaise(site) == IF site \in GuardedCalls THEN "done" ELSE "raised"

\* What the caller holds then: the tuple of the except branch, or nothing.
RaiseOutcome(site, handled) == IF site \in GuardedCalls THEN handled ELSE NoOutcome

PipelineInit ==
    /\ pc = [r \in Sessions |-> "idle"]
    /\ raw_sql = [r \in Sessions |-> None]
    /\ verdict = [r \in Sessions |-> None]
    /\ con = [r \in Sessions |-> None]
    /\ pending = [r \in Sessions |-> None]
    /\ outcome = [r \in Sessions |-> NoOutcome]
    /\ stages = [r \in Sessions |-> <<>>]
    /\ conns = <<>>
    /\ nConns = 0
    /\ nCalls = 0

Init ==
    /\ PipelineInit
    /\ arg = ""
    /\ ret = None
    /\ again = None
    /\ rewrites = <<>>

\* nl2sql_run is entered: the locals are fresh, the connection objects the
\* session's last call left closed are gone, and os.path.exists(db_path)
\* decides between the early return and the call of llm_sql.
Call(r) ==
    /\ pc[r] \in {"idle", "done"}
    /\ nCalls < MaxCalls
    /\ nCalls' = nCalls + 1
    /\ raw_sql' = [raw_sql EXCEPT ![r] = None]
    /\ verdict' = [verdict EXCEPT ![r] = None]
    /\ con' = [con EXCEPT ![r] = None]
    /\ pending' = [pending EXCEPT ![r] = None]
    /\ conns' = [i \in {j \in DOMAIN conns :
                          ~(conns[j].owner = r /\ ~conns[j].open)} |-> conns[i]]
    /\ \E db_exists \in BOOLEAN :
          IF db_exists
          THEN /\ pc' = [pc EXCEPT ![r] = "llm_sql"]
               /\ stages' = [stages EXCEPT ![r] = <<"GENERATING">>]
               /\ outcome' = [outcome EXCEPT ![r] = NoOutcome]
          ELSE /\ pc' = [pc EXCEPT ![r] = "done"]
               /\ stages' = [stages EXCEPT ![r] = <<>>]
               /\ outcome' = [outcome EXCEPT ![r] = DbMissingOutcome]
    /\ UNCHANGED <<nConns, harnessVars>>

\* Variant of Generate: a failed generator call is tried once more.
GenerateWithRetry(r) ==
    /\ pc[r] = "llm_sql"
    /\ \/ /\ Len(stages[r]) < 2
          /\ stages' = [stages EXCEPT ![r] = Append(@, "GENERATING")]
          /\ UNCHANGED <<pc, outcome, raw_sql>>
       \/ /\ pc' = [pc EXCEPT ![r] = "done"]
          /\ outcome' = [outcome EXCEPT ![r] = LlmErrorOutcome]
          /\ UNCHANGED <<raw_sql, stages>>
       \/ \E text \in Candidates :
             /\ raw_sql' = [raw_sql EXCEPT ![r] = Some(text)]
             /\ pc' = [pc EXCEPT ![r] = "sanitize"]
             /\ stages' = [stages EXCEPT ![r] = Append(@, "VALIDATING")]
             /\ UNCHANGED outcome
    /\ UNCHANGED <<verdict, con, pending, conns, nConns, nCalls, harnessVars>>

\* raw_sql = llm_sql(user_query, model=model), or the except branch
Generate(r) ==
    /\ pc[r] = "llm_sql"
    /\ \/ /\ pc' = [pc EXCEPT ![r] = AfterRaise("llm_sql")]
          /\ outcome' = [outcome EXCEPT
                ![r] = RaiseOutcome("llm_sql", LlmErrorOutcome)]
          /\ UNCHANGED <<raw_sql, stages>>
       \/ \E text \in Candidates :
             /\ raw_sql' = [raw_sql EXCEPT ![r] = Some(text)]
             /\ pc' = [pc EXCEPT ![r] = "sanitize"]
             /\ stages' = [stages EXCEPT ![r] = Append(@, "VALIDATING")]
             /\ UNCHANGED outcome
    /\ UNCHANGED <<verdict, con, pending, conns, nConns, nCalls, harnessVars>>

\* ok, safe_or_msg = sanitize_sql(raw_sql); if not ok: return ...
\* An accepted statement has been through add_default_limit (REWRITING) and
\* the call goes on into execute_sql (EXECUTING).
Sanitize(r) ==
    /\ pc[r] = "sanitize"
    /\ LET v == sanitize_sql(raw_sql[r][1])
       IN  /\ verdict' = [verdict EXCEPT ![r] = Some(v)]
           /\ IF v[1]
              THEN /\ pc' = [pc EXCEPT ![r] = "connect"]
                   /\ stages' = [stages EXCEPT
                                   ![r] = @ \o <<"REWRITING", "EXECUTING">>]
                   /\ UNCHANGED outcome
              ELSE /\ pc' = [pc EXCEPT ![r] = "done"]
                   /\ outcome' = [outcome EXCEPT
                                   ![r] = BlockedOutcome(raw_sql[r][1], v[2])]
                   /\ UNCHANGED stages
    /\ UNCHANGED <<raw_sql, con, pending, conns, nConns, nCalls, harnessVars>>

\* execute_sql: con = sqlite3.connect(db_path).  A connect that raises leaves
\* no connection behind and ends nl2sql_run in its last except branch.
Connect(r) ==
    /\ pc[r] = "connect"
    /\ \/ /\ nConns' = nConns + 1
          /\ conns' = conns @@ ((nConns + 1) :>
                        [owner |-> r, open |-> TRUE, sql |-> None,
                         fetched |-> None, usedBy |-> {}])
          /\ con' = [con EXCEPT ![r] = Some(nConns + 1)]
          /\ pc' = [pc EXCEPT ![r] = "query"]
          /\ UNCHANGED outcome
       \/ /\ pc' = [pc EXCEPT ![r] = AfterRaise("execute_sql")]
          /\ outcome' = [outcome EXCEPT
                ![r] = RaiseOutcome("execute_sql",
                          ExecErrorOutcome(ExecuteArg(raw_sql[r][1],
                                                      verdict[r][1][2])))]
          /\ UNCHANGED <<con, conns, nConns>>
    /\ UNCHANGED <<raw_sql, verdict, pending, stages, nCalls, harnessVars>>

\* execute_sql, the try block: df = pd.read_sql_query(sql, con), then the
\* safety cap.  The engine returns some number of rows or raises.
Query(r) ==
    /\ pc[r] = "query"
    /\ LET id == con[r][1]
           sql == ExecuteArg(raw_sql[r][1], verdict[r][1][2])
       IN  \/ \E n \in EngineRowCounts :
                /\ conns' = [conns EXCEPT ![id].sql = Some(sql),
                                          ![id].fetched = Some(n),
                                          ![id].usedBy = @ \cup {r}]
                /\ pending' = [pending EXCEPT
                      ![r] = Some([raised |-> FALSE,
                                   df |-> Truncate(n, LIMIT_ROWS)])]
           \/ /\ conns' = [conns EXCEPT ![id].sql = Some(sql),
                                        ![id].usedBy = @ \cup {r}]
              /\ pending' = [pending EXCEPT
                    ![r] = Some([raised |-> TRUE, df |-> 0])]
    /\ pc' = [pc EXCEPT ![r] = "close"]
    /\ UNCHANGED <<raw_sql, verdict, con, outcome, stages, nConns, nCalls,
                   harnessVars>>

\* execute_sql, the finally block, and the return of nl2sql_run that follows:
\* the frame on success, the last except branch when the try block raised.
Close(r) ==
    /\ pc[r] = "close"
    /\ LET p == pending[r][1]
           sql == ExecuteArg(raw_sql[r][1], verdict[r][1][2])
       IN  /\ conns' = CloseOnExit(conns, con[r][1], p.raised)
           /\ outcome' = [outcome EXCEPT
                 ![r] = IF p.raised
                        THEN RaiseOutcome("execute_sql", ExecErrorOutcome(sql))
                        ELSE SuccessOutcome(sql, p.df)]
           /\ pc' = [pc EXCEPT
                 ![r] = IF p.raised THEN AfterRaise("execute_sql") ELSE "done"]
    /\ UNCHANGED <<raw_sql, verdict, con, pending, stages, nConns, nCalls,
                   harnessVars>>

Next ==
    \E r \in Sessions :
        \/ Call(r)
        \/ Generate(r)
        \/ Sanitize(r)
        \/ Connect(r)
        \/ Query(r)
        \/ Close(r)

Spec == Init /\ [][Next]_vars

(***************************************************************************)
(* The validator on its own: sanitize_sql applied to candidate texts put   *)
(* together from the pieces of a statement.                                *)
(***************************************************************************)
Heads == {"SELECT ", " select\n", "SELECTED ", "DELETE ", "EXPLAIN SELECT "}

Columns ==
    {"*", "counterparty", "COUNT(*)", "max(amount)", "transactions.id",
     "transactions.secret", "t.id", "updated_at"}

Froms ==
    {" FROM transactions", " from Transactions", " FROM other_table",
     " FROM transactions, other_table", " FROM transactions JOIN other_table",
     " FROM transactions JOIN transactions", ""}

Tails ==
    {"", " LIMIT 5", " limit\t10", " LIMIT x", " WHERE ccy='USD'",
     " -- drop", "; DROP TABLE transactions", "; SELECT * FROM transactions",
     " JOIN"}

RECURSIVE Semis(_)
Semis(k) == IF k = 0 THEN "" ELSE ";" \o Semis(k - 1)

Terminators == {Semis(k) : k \in 0..MaxSemis} \cup {Semis(k) \o " " : k \in 1..MaxSemis}

ValidatorInputs ==
    {h \o c \o f \o t \o z :
        h \in Heads, c \in Columns, f \in Froms, t \in Tails, z \in Terminators}

SanitizeInit ==
    /\ PipelineInit
    /\ arg \in ValidatorInputs
    /\ ret = None
    /\ again = None
    /\ rewrites = <<>>

\* ok, safe_or_msg = sanitize_sql(arg)
SanitizeCall ==
    /\ ret = None
    /\ ret' = Some(sanitize_sql(arg))
    /\ UNCHANGED <<arg, again, rewrites, pipelineVars>>

SanitizeNext == SanitizeCall

SpecSanitize == SanitizeInit /\ [][SanitizeNext]_vars

(***************************************************************************)
(* Round trips: the accepted output of sanitize_sql handed to sanitize_sql *)
(* again, and add_default_limit applied to its own result.                 *)
(***************************************************************************)
\* the rewriter as sanitize_sql calls it: add_default_limit(sql_clean)
Rewrite(sql) == add_default_limit(sql, DEFAULT_LIMIT)

\* ok2, safe2 = sanitize_sql(safe_or_msg), for an accepted safe_or_msg
SanitizeAgain ==
    /\ ret # None
    /\ ret[1][1]
    /\ again = None
    /\ again' = Some(sanitize_sql(ret[1][2]))
    /\ UNCHANGED <<arg, ret, rewrites, pipelineVars>>

\* add_default_limit(arg), then add_default_limit of that result
RewriteCall ==
    /\ ret = None
    /\ Len(rewrites) < 2
    /\ rewrites' = Append(rewrites,
                      Rewrite(IF rewrites = <<>> THEN arg ELSE rewrites[1]))
    /\ UNCHANGED <<arg, ret, again, pipelineVars>>

\* A round trip goes through the validator or through the rewriter alone.
RoundTripSanitizeCall ==
    /\ rewrites = <<>>
    /\ SanitizeCall

RoundTripNext ==
    \/ RoundTripSanitizeCall
    \/ SanitizeAgain
    \/ RewriteCall

SpecRoundTrip == SanitizeInit /\ [][RoundTripNext]_vars

(***************************************************************************)
(* Properties of the pipeline (checked under Spec).                        *)
(***************************************************************************)
StageOrder == <<"GENERATING", "VALIDATING", "REWRITING", "EXECUTING">>

IsPrefix(s, t) == Len(s) <= Len(t) /\ SubSeq(t, 1, Len(s)) = s

\* sanitize_sql of each candidate of the pipeline, evaluated once
Sanitized == [c \in Candidates |-> sanitize_sql(c)]

InExecuteSql(r) == pc[r] \in {"connect", "query", "close"}

Returned(r) == pc[r] = "done"

ConnsOf(r) == {id \in DOMAIN conns : conns[id].owner = r}

\* C1: execute_sql is entered, and the store queried, only with the statement
\* sanitize_sql accepted and returned for the raw_sql of the same run; a run
\* that ended on a missing store, a generator failure or a rejection has
\* opened no connection and executed nothing.
C1_OnlySanitizedSqlExecuted ==
    /\ \A r \in Sessions :
          InExecuteSql(r) =>
             /\ raw_sql[r] # None
             /\ Sanitized[raw_sql[r][1]][1]
    /\ \A id \in DOMAIN conns :
          LET c == conns[id]
          IN  /\ raw_sql[c.owner] # None
              /\ Sanitized[raw_sql[c.owner][1]][1]
              /\ c.sql # None =>
                    c.sql[1] = Sanitized[raw_sql[c.owner][1]][2]
    /\ \A r \in Sessions :
          (Returned(r) /\ (raw_sql[r] = None \/ ~Sanitized[raw_sql[r][1]][1]))
             => ConnsOf(r) = {}

\* C1 witness: the store was queried with a statement that differs from the
\* raw candidate (a LIMIT was added), while another run ended in a rejection.
C1_Witness ==
    \E id \in DOMAIN conns : \E q \in Sessions :
        /\ conns[id].sql # None
        /\ conns[id].sql[1] # raw_sql[conns[id].owner][1]
        /\ Returned(q) /\ raw_sql[q] # None
        /\ ~Sanitized[raw_sql[q][1]][1]

\* C2: the tuple nl2sql_run returns has exactly one of dataframe and
\* error_message present.
C2_ExactlyOneOfFrameAndError ==
    \A r \in Sessions :
        Returned(r) =>
           (outcome[r].dataframe = None) # (outcome[r].error_message = None)

\* C2 witness: one call returned a frame and another returned after the
\* query raised.
C2_Witness ==
    \E r, q \in Sessions :
        /\ Returned(r) /\ outcome[r].dataframe # None
        /\ Returned(q) /\ pending[q] # None /\ pending[q][1].raised

\* C5: execute_sql never hands back more than limit_rows rows, whatever the
\* engine returned and whether or not the statement carries a LIMIT; an engine
\* result of limit_rows rows or more gives exactly limit_rows.
C5_RowCeiling ==
    \A r \in Sessions :
        /\ (pending[r] # None /\ ~pending[r][1].raised) =>
              /\ pending[r][1].df <= LIMIT_ROWS
              /\ \A id \in ConnsOf(r) :
                    (conns[id].fetched # None /\ conns[id].fetched[1] >= LIMIT_ROWS)
                       => pending[r][1].df = LIMIT_ROWS
        /\ (Returned(r) /\ outcome[r].dataframe # None) =>
              /\ outcome[r].dataframe[1] <= LIMIT_ROWS
              /\ pending[r] # None
              /\ outcome[r].dataframe[1] = pending[r][1].df

\* C5 witness: the engine returned MaxEngineRows rows for a statement without
\* a LIMIT clause and the call returned exactly limit_rows.
C5_Witness ==
    \E r \in Sessions : \E id \in ConnsOf(r) :
        /\ Returned(r)
        /\ conns[id].fetched = Some(MaxEngineRows)
        /\ ~has_limit(conns[id].sql[1])
        /\ outcome[r].dataframe = Some(LIMIT_ROWS)

\* C8 as stated: the stages of a call are a prefix of GENERATING, VALIDATING,
\* REWRITING, EXECUTING, each entered at most once, and a call ends only out
\* of GENERATING, VALIDATING or EXECUTING.
C8_Original ==
    \A r \in Sessions :
        /\ IsPrefix(stages[r], StageOrder)
        /\ Returned(r) =>
              stages[r] \in {SubSeq(StageOrder, 1, 1), SubSeq(StageOrder, 1, 2),
                             StageOrder}

\* C8 amended: as C8, with one more way to end: the store-existence check on
\* entry returns before GENERATING is entered when the store is missing.
C8_StagesWithEntryCheck ==
    \A r \in Sessions :
        /\ IsPrefix(stages[r], StageOrder)
        /\ Returned(r) =>
              /\ stages[r] \in {<<>>, SubSeq(StageOrder, 1, 1),
                                SubSeq(StageOrder, 1, 2), StageOrder}
              /\ stages[r] = <<>> <=> outcome[r] = DbMissingOutcome
              /\ stages[r] = SubSeq(StageOrder, 1, 1) <=> outcome[r] = LlmErrorOutcome
              /\ stages[r] = SubSeq(StageOrder, 1, 2) <=>
                    (raw_sql[r] # None /\ verdict[r] # None /\ ~verdict[r][1][1])
              /\ stages[r] = StageOrder <=>
                    (verdict[r] # None /\ verdict[r][1][1])

\* C8 witness: one call ended at the entry check and another went through all
\* four stages.
C8_Witness ==
    \E r, q \in Sessions :
        /\ Returned(r) /\ stages[r] = <<>>
        /\ Returned(q) /\ stages[q] = StageOrder

\* C9: a connection is open only while its owner is inside execute_sql, it is
\* closed when nl2sql_run has returned (query succeeded, truncated or raised),
\* and no session other than the one that opened it ever uses it.
C9_ConnectionScoped ==
    /\ \A id \in DOMAIN conns :
          LET c == conns[id]
          IN  /\ c.usedBy \subseteq {c.owner}
              /\ c.open => (pc[c.owner] \in {"query", "close"}
                            /\ con[c.owner] = Some(id))
    /\ \A r \in Sessions :
          Returned(r) => \A id \in ConnsOf(r) : ~conns[id].open
    /\ \A r, q \in Sessions :
          (r # q /\ con[r] # None) => con[r] # con[q]

\* C9 witness: a call returned after its query raised, its connection closed,
\* while the other session holds an open connection of its own.
C9_Witness ==
    \E r, q \in Sessions : \E id \in ConnsOf(r) : \E id2 \in ConnsOf(q) :
        /\ r # q
        /\ Returned(r) /\ pending[r][1].raised /\ ~conns[id].open
        /\ conns[id2].open /\ conns[id2].usedBy = {q}

\* C10: generated_sql is None when the generator failed (or was never called),
\* is the raw candidate itself on a rejection, and is the rewritten statement
\* sent to the store on success and on execution failure.
C10_GeneratedSql ==
    \A r \in Sessions :
        Returned(r) =>
           IF raw_sql[r] = None
           THEN outcome[r].generated_sql = None
           ELSE LET v == Sanitized[raw_sql[r][1]]
                IN  IF v[1]
                    THEN /\ outcome[r].generated_sql = Some(v[2])
                         /\ \A id \in ConnsOf(r) :
                               conns[id].sql # None =>
                                  outcome[r].generated_sql = conns[id].sql
                    ELSE outcome[r].generated_sql = raw_sql[r]

\* C10 witness: a rejected candidate whose normalised form differs from it is
\* returned as it was generated, and another call returned the rewritten
\* statement after the query raised.
C10_Witness ==
    \E r, q \in Sessions :
        /\ Returned(r) /\ raw_sql[r] # None
        /\ ~Sanitized[raw_sql[r][1]][1]
        /\ sql_clean(raw_sql[r][1]) # raw_sql[r][1]
        /\ outcome[r].generated_sql = raw_sql[r]
        /\ Returned(q) /\ pending[q] # None /\ pending[q][1].raised
        /\ outcome[q].generated_sql # raw_sql[q]

(***************************************************************************)
(* Properties of the validator and the rewriter (checked under             *)
(* SpecSanitize).  The notions the properties speak of are stated here on  *)
(* the text itself.                                                        *)
(***************************************************************************)
\* word occurs in s as a whole word, in any letter case
ContainsWord(s, word) ==
    \E i \in 1..Len(s) :
        /\ ~IsWordAt(s, i - 1)
        /\ ~IsWordAt(s, i + Len(word))
        /\ LiteralAt(s, i, word)

ContainsDeniedWord(s) == \E kw \in DDL_DML_KEYWORDS : ContainsWord(s, kw)

ContainsAggregateWord(s) == \E f \in AGG_FUNCS : ContainsWord(s, f)

\* the trimmed text begins with the keyword SELECT
BeginsWithSelectWord(s) ==
    LET t == strip(s)
    IN  LiteralAt(t, 1, "SELECT") /\ ~IsWordAt(t, 7)

\* an interior ";" of the trimmed text is followed by further statement text
HasFurtherStatement(s) ==
    LET t == rstrip_semi(strip(s))
    IN  \E i \in 1..Len(t) :
            /\ Char(t, i) = ";"
            /\ \E j \in (i + 1)..Len(t) : Char(t, j) \notin (WhiteSpace \cup {";"})

RECURSIVE TableListRest(_, _)
\* the further entries of a comma-separated table list that goes on at index e
TableListRest(s, e) ==
    LET c == SkipWhile(s, e, WhiteSpace)
    IN  IF c <= Len(s) /\ Char(s, c) = ","
        THEN LET j == SkipWhile(s, c + 1, WhiteSpace)
                 k == IdentEnd(s, j)
             IN  IF k > 0 THEN <<SubSeq(s, j, k - 1)>> \o TableListRest(s, k)
                 ELSE <<>>
        ELSE <<>>

\* the tables a FROM or JOIN clause of s names, list entries included
NamedTables(s) ==
    UNION {LET m == KeywordTableAt(s, kw, i)
           IN  IF m[1] = 0 THEN {}
               ELSE LET rest == TableListRest(s, m[2])
                    IN  {lower(SubSeq(s, m[1], m[2] - 1))}
                           \cup {lower(rest[k]) : k \in 1..Len(rest)}
           : kw \in {"FROM", "JOIN"}, i \in 1..Len(s)}

HasFromAllowedTable(s) ==
    \E i \in 1..Len(s) :
        LET m == KeywordTableAt(s, "FROM", i)
        IN  m[1] > 0 /\ lower(SubSeq(s, m[1], m[2] - 1)) = lower(ALLOWED_TABLE)

Called == ret # None

Accepted == Called /\ ret[1][1]

RejectedWith(msg) == Called /\ ret[1] = <<FALSE, msg>>

\* C3 as stated: every candidate that contains a denylisted keyword as a whole
\* word is rejected with the unsafe-keyword reason.
C3_Original ==
    (Called /\ ContainsDeniedWord(arg)) => RejectedWith(MSG_UNSAFE)

\* C3 amended: a candidate that begins with SELECT and contains a denylisted
\* keyword as a whole word (any case, any position) is rejected with the
\* unsafe-keyword reason; one that does not begin with SELECT is rejected by
\* the statement-shape gate first, with the not-a-SELECT reason.
C3_UnsafeKeywordBehindShapeGate ==
    (Called /\ ContainsDeniedWord(arg)) =>
        IF BeginsWithSelectWord(arg)
        THEN RejectedWith(MSG_UNSAFE)
        ELSE RejectedWith(MSG_NOT_SELECT)

\* C3 witness: a SELECT whose only denylisted word is a lower-case "drop"
\* inside a comment was rejected as unsafe.
C3_Witness ==
    /\ RejectedWith(MSG_UNSAFE)
    /\ Contains(arg, "-- drop")
    /\ ~Contains(arg, "DROP")

\* C4 as stated: an accepted statement without a LIMIT clause and without an
\* aggregate function as a whole word gets exactly " LIMIT 100" before its one
\* terminator; one with an aggregate function gets no LIMIT appended.
C4_Claim ==
    Accepted =>
        LET clean == sql_clean(arg)
        IN  /\ (~has_limit(clean) /\ ~ContainsAggregateWord(clean)) =>
                  ret[1][2] = rstrip_semi(clean) \o " LIMIT "
                                 \o IntToStr(DEFAULT_LIMIT) \o ";"
            /\ ContainsAggregateWord(clean) => ret[1][2] = clean

\* C6 as stated: behind the shape and keyword gates, a candidate that names a
\* table other than transactions in a FROM or JOIN clause (later entries of a
\* comma-separated list included), or has no FROM transactions, is rejected
\* with the unknown-table reason; an accepted statement names no other table.
C6_Claim ==
    LET clean == sql_clean(arg)
    IN  (Called /\ BeginsWithSelectWord(arg) /\ ~ContainsDeniedWord(arg)) =>
           /\ (NamedTables(clean) \ {lower(ALLOWED_TABLE)} # {}
                  \/ ~HasFromAllowedTable(clean)) => RejectedWith(MSG_TABLE)
           /\ Accepted => NamedTables(clean) = {lower(ALLOWED_TABLE)}

\* C7 as stated: a candidate is accepted only if it is one single statement
\* beginning with SELECT, and anything else is rejected as not a SELECT.
C7_Original ==
    Called =>
        LET single == BeginsWithSelectWord(arg) /\ ~HasFurtherStatement(arg)
        IN  /\ Accepted => single
            /\ ~single => RejectedWith(MSG_NOT_SELECT)

\* C7 amended: a candidate is accepted only if its trimmed text begins with the
\* keyword SELECT; text that does not is rejected as not a SELECT with no
\* rewritten statement produced, and text that begins with SELECT passes this
\* gate whatever follows an interior ";".
C7_SelectPrefixGate ==
    Called =>
        /\ Accepted => BeginsWithSelectWord(arg)
        /\ ~BeginsWithSelectWord(arg) => RejectedWith(MSG_NOT_SELECT)
        /\ BeginsWithSelectWord(arg) => ~RejectedWith(MSG_NOT_SELECT)

\* C7 witness: text that starts with the letters SELECT but not the keyword
\* was rejected as not a SELECT.
C7_Witness ==
    /\ RejectedWith(MSG_NOT_SELECT)
    /\ LiteralAt(strip(arg), 1, "SELECTED")

(***************************************************************************)
(* Properties of the round trips (checked under SpecRoundTrip).            *)
(***************************************************************************)
\* a LIMIT clause was appended to the accepted statement
LimitAppended == Accepted /\ ret[1][2] # sql_clean(arg)

\* the text, its terminator and trailing blanks aside, ends in the keyword
\* FROM or JOIN
EndsInTableKeyword(s) ==
    LET t == rstrip_ws(rstrip_semi(s))
    IN  \E kw \in {"FROM", "JOIN"} :
            /\ LiteralAt(t, Len(t) - 3, kw)
            /\ ~IsWordAt(t, Len(t) - 4)

\* C11 as stated: add_default_limit applied to its own result changes nothing,
\* and the accepted output of sanitize_sql, handed to sanitize_sql again, is
\* accepted and returned unchanged.
C11_Original ==
    /\ Len(rewrites) = 2 => rewrites[2] = rewrites[1]
    /\ again # None => again[1] = <<TRUE, ret[1][2]>>

\* C11 amended: add_default_limit applied to its own result changes nothing
\* for every statement; the accepted output of sanitize_sql, handed to
\* sanitize_sql again, is accepted and returned unchanged, except when a LIMIT
\* was appended to a statement that ends in the keyword FROM or JOIN: there the
\* appended LIMIT is read as a table name and the output is rejected with the
\* unknown-table reason.
C11_RoundTrip ==
    /\ Len(rewrites) = 2 => rewrites[2] = rewrites[1]
    /\ again # None =>
          IF LimitAppended /\ EndsInTableKeyword(sql_clean(arg))
          THEN again[1] = <<FALSE, MSG_TABLE>>
          ELSE again[1] = <<TRUE, ret[1][2]>>

\* C11 witness: a statement that got a LIMIT appended went through
\* sanitize_sql a second time and came back accepted and unchanged.
C11_Witness ==
    /\ LimitAppended
    /\ again # None
    /\ again[1] = <<TRUE, ret[1][2]>>
    /\ has_limit(ret[1][2]) /\ ~has_limit(sql_clean(arg))

(***************************************************************************)
(* Failures of a call of nl2sql_run (checked under Spec).                  *)
(***************************************************************************)
\* the call is over: nl2sql_run returned, or an exception left it
Ended(r) == pc[r] \in {"done", "raised"}

StoreMissing(r) == Ended(r) /\ stages[r] = <<>>

GeneratorFailed(r) == Ended(r) /\ stages[r] = SubSeq(StageOrder, 1, 1)

ConnectFailed(r) == Ended(r) /\ stages[r] = StageOrder /\ con[r] = None

QueryFailed(r) == Ended(r) /\ pending[r] # None /\ pending[r][1].raised

\* C12: no exception leaves nl2sql_run: a missing store, a generator
\* exception, a failing connect and a failing query each end the call with a
\* normal return whose error_message is set and whose dataframe is absent, and
\* the call has not gone on or tried again after the failure.
C12_NoExceptionEscapes ==
    \A r \in Sessions :
        /\ pc[r] # "raised"
        /\ StoreMissing(r) =>
              /\ outcome[r] = DbMissingOutcome
              /\ raw_sql[r] = None /\ ConnsOf(r) = {}
        /\ GeneratorFailed(r) =>
              /\ outcome[r] = LlmErrorOutcome
              /\ raw_sql[r] = None /\ ConnsOf(r) = {}
        /\ ConnectFailed(r) =>
              /\ outcome[r].error_message = Some("SQL execution error")
              /\ outcome[r].dataframe = None
              /\ ConnsOf(r) = {}
        /\ QueryFailed(r) =>
              /\ outcome[r].error_message = Some("SQL execution error")
              /\ outcome[r].dataframe = None
              /\ Cardinality(ConnsOf(r)) = 1
              /\ \A id \in ConnsOf(r) : conns[id].fetched = None

\* C12 witness: one call returned after its connect failed and the call of the
\* other session returned after its query raised.
C12_Witness ==
    \E r, q \in Sessions :
        /\ Returned(r) /\ ConnectFailed(r)
        /\ Returned(q) /\ QueryFailed(q)
        /\ outcome[q].error_message # None

====
